---- MODULE Spec2Model ----
(***************************************************************************)
(* A model of the client-side logic of zoomtube:                           *)
(*   - LoadIconFeedback.parseFeedback, the bucketing of icon feedback into *)
(*     10 second intervals (feedback/load-icon-feedback.js);               *)
(*   - DiscussionManager.processNewComments / fetchNewComments, the        *)
(*     threading of a flat comment list (discussion-manager).              *)
(***************************************************************************)
EXTENDS Integers, Sequences, FiniteSets, TLC

VARIABLES
    \* ---- LoadIconFeedback.parseFeedback ----
    iconFeedbackJson,    \* the argument: a list of [timestampMs, type]
    index,               \* `let index` (0-based, as in the code)
    interval,            \* `let interval`
    goodCount,           \* the four per-iteration counters
    badCount,
    tooFastCount,
    tooSlowCount,
    parsedIconFeedback,  \* #parsedIconFeedback: five parallel sequences
    pcParse,             \* position in parseFeedback: "loop" | "done"
    \* ---- DiscussionManager ----
    displayedComments,   \* #displayedComments: the Map, as its entries'
                         \* values in insertion order; each value is a comment
                         \* [id, type, parentId, replies, parent]
    pc,                  \* position in processNewComments:
                         \* "idle" | "dedup" | "link"
    comment,             \* the loop variable of the first for-loop
    newComments,         \* `const newComments`, as the ids of its comments
    linkIndex,           \* position of the second for-loop in newComments
    outcome,             \* how the last call ended: [kind, value]
    \* ---- fetchNewComments and the server it polls ----
    serverComments,      \* the lecture's comments on the server
    requests,            \* number of fetches sent and not yet answered
    responses,           \* answered fetches not yet resumed: a bag of
                         \* snapshot lengths, [length -> how many]
    json,                \* the response the running call iterates
    consumed,            \* how many elements of json the first loop has read
    \* ---- history, read by the properties only ----
    displayedAtCall,     \* displayedComments when the running call began
    inputIds,            \* ids met in the input of the running call or, when
                         \* none runs, of the last one
    earlierInputIds,     \* ids met in the input of the calls before that one
    returnedLog,         \* the results of all the calls so far, concatenated
    largestReceived      \* the longest snapshot resumed so far

feedbackVars == <<iconFeedbackJson, index, interval, goodCount, badCount,
                  tooFastCount, tooSlowCount, parsedIconFeedback, pcParse>>

discussionVars == <<displayedComments, pc, comment, newComments, linkIndex,
                    outcome>>

fetchVars == <<serverComments, requests, responses, json, consumed>>

historyVars == <<displayedAtCall, inputIds, earlierInputIds, returnedLog,
                 largestReceived>>

vars == <<feedbackVars, discussionVars, fetchVars, historyVars>>

-----------------------------------------------------------------------------
(* Bounds and input domains                                                *)

\* Longest event list given to parseFeedback.
MaxEvents == 3

\* static #INCREMENT_INTERVAL = 10000
INCREMENT_INTERVAL == 10000

\* Timestamps of the events: inside the first interval, on the boundary
\* between the first and the second, and inside the second.
TimestampsMs == {0, 5000, 10000, 15000}

\* The `type` field: the four icon types, and "undefined" for every other
\* value (an unrecognized string, or a record without the field): the code
\* only compares the field with 'GOOD', 'BAD' and 'TOO_FAST'.
FeedbackTypes == {"GOOD", "BAD", "TOO_FAST", "TOO_SLOW", "undefined"}

FeedbackEvents == [timestampMs : TimestampsMs, type : FeedbackTypes]

EventLists == UNION {[1..n -> FeedbackEvents] : n \in 0..MaxEvents}

\* The ids of the comments handed to processNewComments are 1..MaxId; the
\* lists themselves are of any length.
MaxId == 2

CommentIds == 1..MaxId

\* Most comments posted to the server, which numbers them 1, 2, ...
MaxPosted == 3

\* Most fetchNewComments calls pending at a time.
MaxFetches == 2

\* import {COMMENT_TYPE_REPLY} from './discussion.js'
COMMENT_TYPE_REPLY == "REPLY"

\* The type of a comment that is not a reply.
COMMENT_TYPE_ROOT == "ROOT"

\* `undefined`: no parentKey (a root comment), no `parent` field set.
NoId == 0

\* The comments a caller may hand to processNewComments: a root comment,
\* or a reply to any id (its own included).
Comments ==
    [id : CommentIds, type : {COMMENT_TYPE_ROOT}, parentId : {NoId}]
        \cup [id : CommentIds, type : {COMMENT_TYPE_REPLY}, parentId : CommentIds]

-----------------------------------------------------------------------------
(* Helpers                                                                 *)

RECURSIVE SumSeq(_)
SumSeq(s) == IF s = <<>> THEN 0 ELSE Head(s) + SumSeq(Tail(s))

IsSortedAscending(events) ==
    \A i \in 1..Len(events) : \A j \in i..Len(events) :
        events[i].timestampMs <= events[j].timestampMs

MaxTimestampMs(events) ==
    CHOOSE m \in {events[i].timestampMs : i \in 1..Len(events)} :
        \A i \in 1..Len(events) : events[i].timestampMs <= m

-----------------------------------------------------------------------------
(* LoadIconFeedback                                                        *)

\* new ParsedIconFeedback(): five empty sequences.
ParsedIconFeedback ==
    [goodCounts |-> <<>>, badCounts |-> <<>>, tooFastCounts |-> <<>>,
     tooSlowCounts |-> <<>>, interval |-> <<>>]

\* The if / else-if chain of the inner loop: the counter an event of `type`
\* increments.
CounterFor_NoDefault(type) ==
    CASE type = "GOOD" -> "goodCount"
      [] type = "BAD" -> "badCount"
      [] type = "TOO_FAST" -> "tooFastCount"
      [] type = "TOO_SLOW" -> "tooSlowCount"
      [] OTHER -> "none"

CounterFor_Swapped(type) ==
    CASE type = "GOOD" -> "goodCount"
      [] type = "BAD" -> "badCount"
      [] type = "TOO_FAST" -> "tooSlowCount"
      [] OTHER -> "tooFastCount"

CounterFor(type) ==
    CASE type = "GOOD" -> "goodCount"
      [] type = "BAD" -> "badCount"
      [] type = "TOO_FAST" -> "tooFastCount"
      [] OTHER -> "tooSlowCount"

\* The condition of the inner while.
InnerCondition ==
    /\ index < Len(iconFeedbackJson)
    /\ iconFeedbackJson[index + 1].timestampMs < interval

\* The condition of the outer while, on the index it is evaluated with.
OuterCondition(i) == i < Len(iconFeedbackJson)

\* The amount the boundary advances by at the end of an outer iteration.
IntervalStep_Seconds == INCREMENT_INTERVAL \div 1000

IntervalStep == INCREMENT_INTERVAL

\* this.#parsedIconFeedback.append...(...): one bucket appended to the five
\* sequences; the label is interval / 1000.
AppendCounts(p) ==
    [goodCounts |-> Append(p.goodCounts, goodCount),
     badCounts |-> Append(p.badCounts, badCount),
     tooFastCounts |-> Append(p.tooFastCounts, tooFastCount),
     tooSlowCounts |-> Append(p.tooSlowCounts, tooSlowCount),
     interval |-> Append(p.interval, interval \div 1000)]

\* initialize() + the entry of parseFeedback(jsonData) on any event list.
InitFeedback ==
    /\ iconFeedbackJson \in EventLists
    /\ index = 0
    /\ interval = 0
    /\ goodCount = 0
    /\ badCount = 0
    /\ tooFastCount = 0
    /\ tooSlowCount = 0
    /\ parsedIconFeedback = ParsedIconFeedback
    /\ pcParse = IF OuterCondition(0) THEN "loop" ELSE "done"

\* One iteration of the inner while: classify the event at `index`.
ConsumeEvent ==
    /\ pcParse = "loop"
    /\ InnerCondition
    /\ LET c == CounterFor(iconFeedbackJson[index + 1].type) IN
        /\ goodCount' = IF c = "goodCount" THEN goodCount + 1 ELSE goodCount
        /\ badCount' = IF c = "badCount" THEN badCount + 1 ELSE badCount
        /\ tooFastCount' =
               IF c = "tooFastCount" THEN tooFastCount + 1 ELSE tooFastCount
        /\ tooSlowCount' =
               IF c = "tooSlowCount" THEN tooSlowCount + 1 ELSE tooSlowCount
    /\ index' = index + 1
    /\ UNCHANGED <<iconFeedbackJson, interval, parsedIconFeedback, pcParse>>

\* The end of an outer iteration: the inner while is over, the bucket is
\* appended, the boundary advances, and the outer condition is evaluated
\* again (the counters of the next iteration start at 0).
AppendBucket ==
    /\ pcParse = "loop"
    /\ ~InnerCondition
    /\ parsedIconFeedback' = AppendCounts(parsedIconFeedback)
    /\ interval' = interval + IntervalStep
    /\ goodCount' = 0
    /\ badCount' = 0
    /\ tooFastCount' = 0
    /\ tooSlowCount' = 0
    /\ pcParse' = IF OuterCondition(index) THEN "loop" ELSE "done"
    /\ UNCHANGED <<iconFeedbackJson, index>>

-----------------------------------------------------------------------------
(* DiscussionManager                                                       *)

\* The keys of the Map.
Keys(dc) == {dc[i].id : i \in DOMAIN dc}

\* this.#displayedComments.has(id)
IsDisplayed_Never(dc, id) == FALSE

IsDisplayed(dc, id) == id \in Keys(dc)

\* this.#displayedComments.get(id), for a key of the Map.
MapGet(dc, id) == dc[CHOOSE i \in DOMAIN dc : dc[i].id = id]

\* this.#displayedComments.set(id, c): a new key is added last, the value of
\* a key already there is replaced in place.
MapSet(dc, c) ==
    IF c.id \in Keys(dc)
    THEN [i \in DOMAIN dc |-> IF dc[i].id = c.id THEN c ELSE dc[i]]
    ELSE Append(dc, c)

\* `comment.replies = []` on a comment as it arrives: it has no `parent`.
NewComment(c) ==
    [id |-> c.id, type |-> c.type, parentId |-> c.parentId,
     replies |-> <<>>, parent |-> NoId]

\* The value of `comment` outside the first loop.
NoComment == [id |-> NoId, type |-> "none", parentId |-> NoId]

\* constructor(lecture): an empty Map, no call running.
InitDiscussion ==
    /\ displayedComments = <<>>
    /\ pc = "idle"
    /\ comment = NoComment
    /\ newComments = <<>>
    /\ linkIndex = 1
    /\ outcome = [kind |-> "none", value |-> <<>>]
    /\ displayedAtCall = <<>>
    /\ inputIds = {}
    /\ earlierInputIds = {}
    /\ returnedLog = <<>>
    /\ largestReceived = 0

\* The entry of processNewComments(allComments): `const newComments = []`.
EnterCall ==
    /\ pc = "idle"
    /\ pc' = "dedup"
    /\ newComments' = <<>>
    /\ linkIndex' = 1
    /\ outcome' = [kind |-> "running", value |-> <<>>]
    /\ displayedAtCall' = displayedComments
    /\ earlierInputIds' = earlierInputIds \cup inputIds
    /\ inputIds' = {}
    /\ UNCHANGED <<displayedComments, comment, returnedLog>>

\* The body of the first for-loop on the next element `c` of allComments.
DedupBody(c) ==
    /\ pc = "dedup"
    /\ comment' = c
    /\ IF IsDisplayed(displayedComments, c.id)
       THEN UNCHANGED <<displayedComments, newComments>>
       ELSE /\ displayedComments' = MapSet(displayedComments, NewComment(c))
            /\ newComments' = Append(newComments, c.id)
    /\ inputIds' = inputIds \cup {c.id}
    /\ UNCHANGED <<pc, linkIndex, outcome, displayedAtCall, earlierInputIds,
                   returnedLog, largestReceived>>

\* The first for-loop is over: the second one starts.
DedupDone ==
    /\ pc = "dedup"
    /\ pc' = "link"
    /\ comment' = NoComment
    /\ linkIndex' = 1
    /\ UNCHANGED <<displayedComments, newComments, outcome, displayedAtCall,
                   inputIds, earlierInputIds, returnedLog, largestReceived>>

\* `parent.replies.push(comment)` throws a TypeError when
\* this.#displayedComments.get(parentId) is undefined.
Throws_Never(dc, cid) == FALSE

Throws(dc, cid) ==
    /\ MapGet(dc, cid).type = COMMENT_TYPE_REPLY
    /\ MapGet(dc, cid).parentId \notin Keys(dc)

\* `parent.replies.push(comment); comment.parent = parent;`
Link_NoBackReference(dc, cid) ==
    LET c == MapGet(dc, cid) IN
    [i \in DOMAIN dc |->
        [dc[i] EXCEPT !.replies =
                          IF dc[i].id = c.parentId THEN Append(@, cid) ELSE @]]

Link_Unshift(dc, cid) ==
    LET c == MapGet(dc, cid) IN
    [i \in DOMAIN dc |->
        [dc[i] EXCEPT !.replies =
                          IF dc[i].id = c.parentId THEN <<cid>> \o @ ELSE @,
                      !.parent = IF dc[i].id = cid THEN c.parentId ELSE @]]

Link(dc, cid) ==
    LET c == MapGet(dc, cid) IN
    [i \in DOMAIN dc |->
        [dc[i] EXCEPT !.replies =
                          IF dc[i].id = c.parentId THEN Append(@, cid) ELSE @,
                      !.parent = IF dc[i].id = cid THEN c.parentId ELSE @]]

\* The end of a call, by `return newComments` or by the TypeError.
EndCall(kind, value) ==
    /\ pc' = "idle"
    /\ outcome' = [kind |-> kind, value |-> value]
    /\ newComments' = <<>>
    /\ linkIndex' = 1
    /\ json' = <<>>
    /\ consumed' = 0
    /\ displayedAtCall' = <<>>
    /\ UNCHANGED <<inputIds, earlierInputIds>>

\* One iteration of the second for-loop.
LinkNext ==
    /\ pc = "link"
    /\ linkIndex <= Len(newComments)
    /\ LET cid == newComments[linkIndex] IN
        IF Throws(displayedComments, cid)
        THEN /\ EndCall("TypeError", <<>>)
             /\ UNCHANGED <<displayedComments, returnedLog>>
        ELSE /\ displayedComments' =
                    IF MapGet(displayedComments, cid).type = COMMENT_TYPE_REPLY
                    THEN Link(displayedComments, cid)
                    ELSE displayedComments
             /\ linkIndex' = linkIndex + 1
             /\ UNCHANGED <<pc, newComments, outcome, json, consumed,
                            displayedAtCall, inputIds, earlierInputIds,
                            returnedLog>>
    /\ UNCHANGED <<comment, serverComments, requests, responses,
                   largestReceived>>

\* `return newComments;`
Return ==
    /\ pc = "link"
    /\ linkIndex > Len(newComments)
    /\ EndCall("returned", newComments)
    /\ returnedLog' = returnedLog \o newComments
    /\ UNCHANGED <<displayedComments, comment, serverComments, requests,
                   responses, largestReceived>>

\* A caller hands a list to processNewComments; the list is read one element
\* at a time by the first loop, so its elements are chosen as they are read.
ProcessNewComments ==
    /\ EnterCall
    /\ UNCHANGED <<fetchVars, largestReceived>>

DedupNext ==
    /\ \E c \in Comments : DedupBody(c)
    /\ UNCHANGED fetchVars

DedupEnd ==
    /\ DedupDone
    /\ UNCHANGED fetchVars

-----------------------------------------------------------------------------
(* fetchNewComments, against a server whose comment list only grows         *)

InitFetch ==
    /\ serverComments = <<>>
    /\ requests = 0
    /\ responses = [n \in 0..MaxPosted |-> 0]
    /\ json = <<>>
    /\ consumed = 0

Pending == requests + SumSeq([i \in 1..(MaxPosted + 1) |-> responses[i - 1]])

\* postRootComment(content, timestampMs, type), by this or another client:
\* the server stores a new root comment under the next id.
PostRootComment ==
    /\ Len(serverComments) < MaxPosted
    /\ serverComments' =
           Append(serverComments,
                  [id |-> Len(serverComments) + 1, type |-> COMMENT_TYPE_ROOT,
                   parentId |-> NoId])
    /\ UNCHANGED <<requests, responses, json, consumed, discussionVars,
                   historyVars>>

\* postReply(content, parentId): a reply to a comment of the discussion.
PostReply ==
    /\ Len(serverComments) < MaxPosted
    /\ \E parentId \in 1..Len(serverComments) :
        serverComments' =
            Append(serverComments,
                   [id |-> Len(serverComments) + 1, type |-> COMMENT_TYPE_REPLY,
                    parentId |-> parentId])
    /\ UNCHANGED <<requests, responses, json, consumed, discussionVars,
                   historyVars>>

\* fetchNewComments() up to `await fetch(url)`: the request is sent. The
\* browser runs it only when no other script is running.
FetchNewComments ==
    /\ pc = "idle"
    /\ Pending < MaxFetches
    /\ requests' = requests + 1
    /\ UNCHANGED <<serverComments, responses, json, consumed, discussionVars,
                   historyVars>>

\* The server answers one request with all the comments it has.
Respond ==
    /\ requests > 0
    /\ requests' = requests - 1
    /\ responses' =
           [responses EXCEPT ![Len(serverComments)] = @ + 1]
    /\ UNCHANGED <<serverComments, json, consumed, discussionVars, historyVars>>

\* Some response arrives (in any order) and its call resumes:
\* `return this.processNewComments(json)`.
Resume ==
    /\ \E n \in 0..MaxPosted :
        /\ responses[n] > 0
        /\ responses' = [responses EXCEPT ![n] = @ - 1]
        /\ json' = SubSeq(serverComments, 1, n)
        /\ largestReceived' = IF n > largestReceived THEN n ELSE largestReceived
    /\ consumed' = 0
    /\ EnterCall
    /\ UNCHANGED <<serverComments, requests>>

\* The first loop on the next element of the response.
FetchDedupNext ==
    /\ consumed < Len(json)
    /\ DedupBody(json[consumed + 1])
    /\ consumed' = consumed + 1
    /\ UNCHANGED <<serverComments, requests, responses, json>>

FetchDedupEnd ==
    /\ consumed = Len(json)
    /\ DedupDone
    /\ UNCHANGED fetchVars

-----------------------------------------------------------------------------
(* Specifications                                                          *)

\* parseFeedback alone, on every event list; no DiscussionManager activity.
NextFeedback ==
    \/ ConsumeEvent /\ UNCHANGED <<discussionVars, fetchVars, historyVars>>
    \/ AppendBucket /\ UNCHANGED <<discussionVars, fetchVars, historyVars>>

InitParse == InitFeedback /\ InitDiscussion /\ InitFetch

SpecFeedback == InitParse /\ [][NextFeedback]_vars

FairSpecFeedback == SpecFeedback /\ WF_vars(NextFeedback)

\* No parseFeedback activity: the state after it finished on the empty list.
IdleFeedback ==
    /\ iconFeedbackJson = <<>>
    /\ index = 0
    /\ interval = 0
    /\ goodCount = 0
    /\ badCount = 0
    /\ tooFastCount = 0
    /\ tooSlowCount = 0
    /\ parsedIconFeedback = ParsedIconFeedback
    /\ pcParse = "done"

\* processNewComments called again and again, each time on any list.
Init == IdleFeedback /\ InitDiscussion /\ InitFetch

Next ==
    \/ ProcessNewComments /\ UNCHANGED feedbackVars
    \/ DedupNext /\ UNCHANGED feedbackVars
    \/ DedupEnd /\ UNCHANGED feedbackVars
    \/ LinkNext /\ UNCHANGED feedbackVars
    \/ Return /\ UNCHANGED feedbackVars

Spec == Init /\ [][Next]_vars

\* Overlapping fetchNewComments calls against the growing server list.
NextFetch ==
    \/ PostRootComment /\ UNCHANGED feedbackVars
    \/ PostReply /\ UNCHANGED feedbackVars
    \/ FetchNewComments /\ UNCHANGED feedbackVars
    \/ Respond /\ UNCHANGED feedbackVars
    \/ Resume /\ UNCHANGED feedbackVars
    \/ FetchDedupNext /\ UNCHANGED feedbackVars
    \/ FetchDedupEnd /\ UNCHANGED feedbackVars
    \/ LinkNext /\ UNCHANGED feedbackVars
    \/ Return /\ UNCHANGED feedbackVars

SpecFetch == Init /\ [][NextFetch]_vars

-----------------------------------------------------------------------------
(* Claims about parseFeedback                                              *)

Parsed == parsedIconFeedback

TotalCounted ==
    SumSeq(Parsed.goodCounts) + SumSeq(Parsed.badCounts)
        + SumSeq(Parsed.tooFastCounts) + SumSeq(Parsed.tooSlowCounts)

\* C1: when parseFeedback has finished on an event list sorted ascending by
\* (non-negative) timestampMs, the four count sequences sum to the number of
\* events: every event is counted exactly once.
C1_EveryEventCountedOnce ==
    (pcParse = "done" /\ IsSortedAscending(iconFeedbackJson))
        => TotalCounted = Len(iconFeedbackJson)

C1_Witness ==
    /\ pcParse = "done"
    /\ IsSortedAscending(iconFeedbackJson)
    /\ Len(iconFeedbackJson) = 3
    /\ iconFeedbackJson[1].timestampMs < iconFeedbackJson[3].timestampMs
    /\ iconFeedbackJson[2].type = "undefined"
    /\ TotalCounted = 3

\* The reference bucketing of C2: the number of events of counter `c` with
\* timestampMs in [i*W, (i+1)*W).
ReferenceCount(c, i) ==
    Cardinality({k \in 1..Len(iconFeedbackJson) :
        /\ iconFeedbackJson[k].timestampMs >= i * INCREMENT_INTERVAL
        /\ iconFeedbackJson[k].timestampMs < (i + 1) * INCREMENT_INTERVAL
        /\ c = (CASE iconFeedbackJson[k].type = "GOOD" -> "goodCount"
                  [] iconFeedbackJson[k].type = "BAD" -> "badCount"
                  [] iconFeedbackJson[k].type = "TOO_FAST" -> "tooFastCount"
                  [] OTHER -> "tooSlowCount")})

\* C2: on a non-empty sorted event list the output is the reference
\* bucketing: floor(maxTimestampMs / W) + 1 buckets, bucket i labelled
\* i*W/1000 and holding the counts of the events in [i*W, (i+1)*W).
C2_ReferenceBucketing ==
    (/\ pcParse = "done"
     /\ iconFeedbackJson # <<>>
     /\ IsSortedAscending(iconFeedbackJson))
        => LET n == (MaxTimestampMs(iconFeedbackJson) \div INCREMENT_INTERVAL) + 1 IN
            /\ Len(Parsed.interval) = n
            /\ Len(Parsed.goodCounts) = n
            /\ Len(Parsed.badCounts) = n
            /\ Len(Parsed.tooFastCounts) = n
            /\ Len(Parsed.tooSlowCounts) = n
            /\ \A i \in 0..(n - 1) :
                /\ Parsed.interval[i + 1] = (i * INCREMENT_INTERVAL) \div 1000
                /\ Parsed.goodCounts[i + 1] = ReferenceCount("goodCount", i)
                /\ Parsed.badCounts[i + 1] = ReferenceCount("badCount", i)
                /\ Parsed.tooFastCounts[i + 1] = ReferenceCount("tooFastCount", i)
                /\ Parsed.tooSlowCounts[i + 1] = ReferenceCount("tooSlowCount", i)

\* What the code computes instead (not a claim of the specification): the
\* bucket labelled i*W/1000 holds the events of [(i-1)*W, i*W), so the first
\* bucket is always empty and there are floor(maxTimestampMs / W) + 2 of them.
ShiftedBucketing ==
    (/\ pcParse = "done"
     /\ iconFeedbackJson # <<>>
     /\ IsSortedAscending(iconFeedbackJson))
        => LET n == (MaxTimestampMs(iconFeedbackJson) \div INCREMENT_INTERVAL) + 2 IN
            /\ Len(Parsed.interval) = n
            /\ Len(Parsed.goodCounts) = n
            /\ \A i \in 0..(n - 1) :
                /\ Parsed.interval[i + 1] = (i * INCREMENT_INTERVAL) \div 1000
                /\ Parsed.goodCounts[i + 1] = ReferenceCount("goodCount", i - 1)
                /\ Parsed.badCounts[i + 1] = ReferenceCount("badCount", i - 1)
                /\ Parsed.tooFastCounts[i + 1] = ReferenceCount("tooFastCount", i - 1)
                /\ Parsed.tooSlowCounts[i + 1] = ReferenceCount("tooSlowCount", i - 1)

\* The example of the specification: events at 0 (GOOD), 5000 (BAD) and
\* 15000 (TOO_FAST), finished.
SpecExampleDone ==
    /\ pcParse = "done"
    /\ iconFeedbackJson = << [timestampMs |-> 0, type |-> "GOOD"],
                             [timestampMs |-> 5000, type |-> "BAD"],
                             [timestampMs |-> 15000, type |-> "TOO_FAST"] >>

\* The number of outer iterations done so far: one bucket is appended by each.
OuterIterations == Len(Parsed.interval)

IterationBound ==
    IF iconFeedbackJson = <<>> THEN 0
    ELSE (MaxTimestampMs(iconFeedbackJson) \div INCREMENT_INTERVAL) + 2

\* C7: parseFeedback terminates on every event list (sorted or not): the
\* boundary starts at 0 and grows by W on every outer iteration, the index
\* never decreases, the loop ends with the iteration in which the last event
\* is consumed, and there are at most floor(maxTimestampMs / W) + 2 outer
\* iterations.
C7_Terminates ==
    /\ [](/\ OuterIterations <= IterationBound
          /\ interval = INCREMENT_INTERVAL * OuterIterations
          /\ index <= Len(iconFeedbackJson)
          /\ (pcParse = "done" => index = Len(iconFeedbackJson)))
    /\ [][/\ index' >= index
          /\ (OuterIterations' # OuterIterations =>
                /\ OuterIterations' = OuterIterations + 1
                /\ interval' = interval + INCREMENT_INTERVAL
                /\ (index = Len(iconFeedbackJson) => pcParse' = "done"))
          /\ (OuterIterations' = OuterIterations => index' = index + 1)]_vars
    /\ <>(pcParse = "done")

C7_Witness ==
    /\ pcParse = "done"
    /\ Len(iconFeedbackJson) = 3
    /\ ~IsSortedAscending(iconFeedbackJson)
    /\ OuterIterations = IterationBound
    /\ OuterIterations = 3

\* C8: every consumed event increments exactly one of the four counters:
\* GOOD only goodCount, BAD only badCount, TOO_FAST only tooFastCount, and
\* any other type value only tooSlowCount.
C8_OneCounterPerEvent ==
    [][index' # index =>
        LET t == iconFeedbackJson[index + 1].type
            inc == <<goodCount' - goodCount, badCount' - badCount,
                     tooFastCount' - tooFastCount, tooSlowCount' - tooSlowCount>>
        IN  inc = (CASE t = "GOOD" -> <<1, 0, 0, 0>>
                     [] t = "BAD" -> <<0, 1, 0, 0>>
                     [] t = "TOO_FAST" -> <<0, 0, 1, 0>>
                     [] OTHER -> <<0, 0, 0, 1>>)]_vars

C8_Witness ==
    /\ pcParse = "loop"
    /\ index = 3
    /\ iconFeedbackJson[1].type = "TOO_SLOW"
    /\ iconFeedbackJson[2].type = "undefined"
    /\ iconFeedbackJson[3].type = "GOOD"
    /\ tooSlowCount = 2
    /\ goodCount = 1
    /\ badCount + tooFastCount = 0

-----------------------------------------------------------------------------
(* Claims about DiscussionManager                                          *)

Count(seq, x) == Cardinality({i \in DOMAIN seq : seq[i] = x})

NoDuplicates(seq) == \A i, j \in DOMAIN seq : seq[i] = seq[j] => i = j

\* The place of the comment `id` in the order the comments were registered in.
Position(dc, id) == CHOOSE i \in DOMAIN dc : dc[i].id = id

\* C3: an id is in the result of at most one call, and only of the first
\* call whose input holds it, once; an element whose id is already in the Map
\* is skipped and nothing is touched; a call whose input holds only ids that
\* earlier inputs held (the same input given again) returns the empty list.
C3_ProcessedOnce ==
    /\ [](NoDuplicates(returnedLog))
    /\ [][(pc = "dedup" /\ pc' = "dedup") =>
            IF comment'.id \in Keys(displayedComments)
            THEN /\ displayedComments' = displayedComments
                 /\ newComments' = newComments
            ELSE /\ newComments' = Append(newComments, comment'.id)
                 /\ Keys(displayedComments') =
                        Keys(displayedComments) \cup {comment'.id}]_vars
    /\ [][(pc = "link" /\ pc' = "idle") =>
            /\ \A i \in DOMAIN outcome'.value :
                /\ outcome'.value[i] \in inputIds
                /\ outcome'.value[i] \notin earlierInputIds
            /\ (inputIds \subseteq earlierInputIds =>
                    outcome' = [kind |-> "returned", value |-> <<>>])]_vars

C3_Witness ==
    /\ pc = "idle"
    /\ earlierInputIds = {1, 2}
    /\ inputIds = {1, 2}
    /\ outcome = [kind |-> "returned", value |-> <<>>]
    /\ Len(returnedLog) = 2

\* C4: after a call that returned, each comment of its result that is a
\* reply whose parentId is a key of the Map has that comment as its parent
\* and is in that parent's replies exactly once; each one that is not a reply
\* has no parent and is in no replies.
C4_RepliesLinked ==
    (pc = "idle" /\ outcome.kind = "returned") =>
        \A i \in DOMAIN outcome.value :
            LET c == MapGet(displayedComments, outcome.value[i]) IN
            IF c.type = COMMENT_TYPE_REPLY
            THEN c.parentId \in Keys(displayedComments) =>
                    /\ c.parent = c.parentId
                    /\ Count(MapGet(displayedComments, c.parentId).replies, c.id) = 1
            ELSE /\ c.parent = NoId
                 /\ \A j \in DOMAIN displayedComments :
                        Count(displayedComments[j].replies, c.id) = 0

\* The reply is before its parent in the list.
C4_Witness ==
    /\ pc = "idle"
    /\ outcome = [kind |-> "returned", value |-> <<2, 1>>]
    /\ MapGet(displayedComments, 1).type = COMMENT_TYPE_ROOT
    /\ MapGet(displayedComments, 1).replies = <<2>>
    /\ MapGet(displayedComments, 2).parent = 1

\* C5: every step keeps the comments of the Map where they are, under their
\* ids, and lets their replies only grow at the end; no reply is in a
\* replies sequence twice, and the replies are in the order in which they
\* were registered.
C5_AppendOnly ==
    [][/\ Len(displayedComments') >= Len(displayedComments)
       /\ \A i \in DOMAIN displayedComments :
            /\ displayedComments'[i].id = displayedComments[i].id
            /\ displayedComments'[i].type = displayedComments[i].type
            /\ displayedComments'[i].parentId = displayedComments[i].parentId
            /\ Len(displayedComments'[i].replies)
                   >= Len(displayedComments[i].replies)
            /\ SubSeq(displayedComments'[i].replies, 1,
                      Len(displayedComments[i].replies))
                   = displayedComments[i].replies
       /\ \A i \in DOMAIN displayedComments' :
            LET replies == displayedComments'[i].replies IN
            /\ NoDuplicates(replies)
            /\ \A a, b \in DOMAIN replies :
                   a < b => Position(displayedComments', replies[a])
                                < Position(displayedComments', replies[b])]_vars

\* Two replies of one comment, from two calls.
C5_Witness ==
    /\ pc = "idle"
    /\ outcome = [kind |-> "returned", value |-> <<2>>]
    /\ Len(returnedLog) = 2
    /\ MapGet(displayedComments, 1).replies = <<1, 2>>

\* A new reply of the running call whose parentId is neither a key of the
\* Map from before the call nor the id of an element of the call's input.
OrphanedReply ==
    \E i \in DOMAIN newComments :
        LET c == MapGet(displayedComments, newComments[i]) IN
        /\ c.type = COMMENT_TYPE_REPLY
        /\ c.parentId \notin (Keys(displayedAtCall) \cup inputIds)

\* C6: a call with an orphaned new reply ends with the TypeError, not with a
\* result; and no comment ever has a parent that is not in the Map.
C6_OrphanFails ==
    /\ [][(pc = "link" /\ pc' = "idle" /\ OrphanedReply) =>
            outcome' = [kind |-> "TypeError", value |-> <<>>]]_vars
    /\ [](\A i \in DOMAIN displayedComments :
            displayedComments[i].parent # NoId =>
                /\ displayedComments[i].parent = displayedComments[i].parentId
                /\ displayedComments[i].parent \in Keys(displayedComments))

C6_Witness ==
    /\ pc = "idle"
    /\ outcome.kind = "TypeError"
    /\ inputIds = {1}
    /\ Keys(displayedComments) = {1}
    /\ MapGet(displayedComments, 1).type = COMMENT_TYPE_REPLY
    /\ MapGet(displayedComments, 1).parentId = 2
    /\ MapGet(displayedComments, 1).parent = NoId

\* C9: a call that fails leaves the Map as it was when the call began: no
\* comment of the failed list stays registered, no replies is extended.
C9_FailedCallRollsBack ==
    [][(pc = "link" /\ outcome'.kind = "TypeError") =>
            displayedComments' = displayedAtCall]_vars

\* C10: with overlapping fetches of a growing server list, resumed in any
\* order: no id is in two results; and whenever no call is running, the keys
\* of the Map are the ids of the longest snapshot resumed, each of them has
\* been in one result, and each reply is linked to its parent, being once in
\* its parent's replies and in no other.
C10_OverlappingFetches ==
    /\ NoDuplicates(returnedLog)
    /\ outcome.kind # "TypeError"
    /\ (pc = "idle" =>
        /\ Keys(displayedComments) = 1..largestReceived
        /\ {returnedLog[i] : i \in DOMAIN returnedLog} = Keys(displayedComments)
        /\ \A i \in DOMAIN displayedComments :
            LET c == displayedComments[i] IN
            /\ c.type = COMMENT_TYPE_REPLY => c.parent = c.parentId
            /\ c.type # COMMENT_TYPE_REPLY => c.parent = NoId
            /\ \A j \in DOMAIN displayedComments :
                Count(displayedComments[j].replies, c.id) =
                    IF c.type = COMMENT_TYPE_REPLY
                       /\ displayedComments[j].id = c.parentId
                    THEN 1 ELSE 0)

\* A stale snapshot (one comment) resumed after the newest (three comments),
\* two of them replies.
C10_Witness ==
    /\ pc = "idle"
    /\ largestReceived = 3
    /\ inputIds = {1}
    /\ outcome = [kind |-> "returned", value |-> <<>>]
    /\ Len(returnedLog) = 3
    /\ MapGet(displayedComments, 1).replies = <<2, 3>>

====
